---------------------------- MODULE Spec2Model ----------------------------
(***************************************************************************)
(* A model of app.py, the PDF translator server: the MyMemory translation  *)
(* client, the batch translator, the three-tier text extractor and the     *)
(* POST /translate-pdf handler with its page reconstruction loop.          *)
(*                                                                         *)
(* Python values are represented as follows.                               *)
(*   str        a sequence of one-character strings, <<"H", "i">>          *)
(*   None       the value None below (no str contains its marker)          *)
(*   exception  a record [kind |-> class name, msg |-> str(e)]             *)
(*   JSON       a record tagged by its field t (obj, str, num, null, list) *)
(* The PDF library (fitz) and the HTTP client (requests) are outside the   *)
(* program: what they return or raise is an input of the step that calls   *)
(* them.                                                                   *)
(***************************************************************************)
EXTENDS Integers, Sequences, FiniteSets, TLC

VARIABLES
    upload,            \* request.files.get("file"): NoFile, Corrupt or a document
    pc,                \* position of the handler, the batch translator or the extractor
    exc,               \* the exception being propagated, NoExc when none
    src_pdf,           \* "unbound", "open" or "closed"
    out_pdf,           \* "unbound", "open" or "closed"
    outPages,          \* pages of out_pdf, each [width, height, ops]
    page_num,          \* loop variable of the page loop
    text_blocks,       \* regions extracted from the current page
    tiers,             \* extraction methods run by the extract_text_blocks under way
    texts,             \* argument of translate_texts_batch
    translated,        \* its local list
    bidx,              \* its loop index
    netlog,            \* network calls and sleeps of the running batch
    last_call,         \* the last requests.get of the running batch and its result
    translated_texts,  \* result of the batch in translate_pdf
    idx,               \* loop variable of the region loop
    fontsize,          \* font size of the current placement attempt
    leftover,          \* truthiness of the last insert_textbox result
    out_bytes,         \* the serialized output, NoBytes before save
    response           \* what the handler returns, NoResponse before

vars == <<upload, pc, exc, src_pdf, out_pdf, outPages, page_num, text_blocks, tiers,
          texts, translated, bidx, netlog, last_call, translated_texts, idx, fontsize,
          leftover, out_bytes, response>>

-----------------------------------------------------------------------------
(* Bounds of the model *)

\* longest document uploaded
MaxPages == 2

\* longest list handed to translate_texts_batch on its own
MaxBatch == 3

\* bits of the significand of a float
MantissaBits == 4

-----------------------------------------------------------------------------
(* Python strings *)

None == <<"<None>">>

IsSpace(c) == c \in {" ", "\t", "\n"}

RECURSIVE LStrip(_)
LStrip(s) == IF s # <<>> /\ IsSpace(Head(s)) THEN LStrip(Tail(s)) ELSE s

RECURSIVE RStrip(_)
RStrip(s) ==
    IF s # <<>> /\ IsSpace(s[Len(s)]) THEN RStrip(SubSeq(s, 1, Len(s) - 1)) ELSE s

\* str.strip()
Strip(s) == RStrip(LStrip(s))

\* s[:n]
Prefix(s, n) == SubSeq(s, 1, IF Len(s) < n THEN Len(s) ELSE n)

\* bool(s) of a str
Truthy(s) == s # <<>>

-----------------------------------------------------------------------------
(* The translation service *)

\* MyMemory accepts 500 characters per request
QueryLimit == 500

JStr(s) == [t |-> "str", s |-> s, n |-> 0, f |-> <<>>]
JNum(n) == [t |-> "num", s |-> <<>>, n |-> n, f |-> <<>>]
JNull == [t |-> "null", s |-> <<>>, n |-> 0, f |-> <<>>]
JList == [t |-> "list", s |-> <<>>, n |-> 0, f |-> <<>>]
JObj(f) == [t |-> "obj", s |-> <<>>, n |-> 0, f |-> f]

\* the field map of a JSON object: the keys it has, and their values
Fields(keys, status, data) ==
    [k \in keys |-> IF k = "responseStatus" THEN status ELSE data]

\* what the service would answer for the query q when it does translate
Hindi(q) == <<"#">> \o q

\* the values a responseData.translatedText can take
TranslatedTexts(q) == {JStr(Hindi(q)), JStr(<<>>), JNull}

\* the values a responseData can take
ResponseDatas(q) ==
    {JNull, JStr(<<"x">>), JObj(<<>>)}
    \cup {JObj([k \in {"translatedText"} |-> v]) : v \in TranslatedTexts(q)}

\* the bodies of an HTTP answer that parse as JSON
JsonBodies(q) ==
    {JList, JNull}
    \cup {JObj(Fields(keys, st, rd)) :
            keys \in SUBSET {"responseStatus", "responseData"},
            st \in {JNum(200), JNum(403), JStr(<<"2", "0", "0">>)},
            rd \in ResponseDatas(q)}

\* every outcome of requests.get(MYMEMORY_URL, params, timeout=10):
\* it raises, or it returns a response with a status and a body
Outcomes(q) ==
    {[raises |-> TRUE, ok |-> FALSE, json |-> FALSE, body |-> JNull]}
    \cup {[raises |-> FALSE, ok |-> FALSE, json |-> TRUE, body |-> b] :
            b \in {JNull, JObj(Fields({"responseStatus", "responseData"}, JNum(200),
                                      JObj([k \in {"translatedText"} |-> JStr(Hindi(q))])))}}
    \cup {[raises |-> FALSE, ok |-> TRUE, json |-> FALSE, body |-> JNull]}
    \cup {[raises |-> FALSE, ok |-> TRUE, json |-> TRUE, body |-> b] : b \in JsonBodies(q)}

\* the Python value of a JSON value that is a string or null
PyValue(j) == IF j.t = "str" THEN j.s ELSE None

\* dict.get(key, default) on a JSON object, the default being a JSON value
Get(obj, key, default) == IF key \in DOMAIN obj.f THEN obj.f[key] ELSE default

\* the request of translate_text_mymemory
Query(text) == Prefix(text, QueryLimit)

\* data.get("responseStatus") == 200
StatusIs200(data) ==
    LET st == Get(data, "responseStatus", JNull) IN st.t = "num" /\ st.n = 200

\* An exception: its class, str(e) and the line that raised it
Exc(kind, msg, line) == [kind |-> kind, msg |-> msg, line |-> line]

NoExc == Exc("", "", 0)

\* The result of a call: a returned value, or an exception raised
Returned(v) == [raised |-> FALSE, value |-> v, e |-> NoExc]

Raised(e) == [raised |-> TRUE, value |-> None, e |-> e]

\* lines 37-42 on the response o: the value returned, or what is raised
ResponseValue(o, text) ==
    IF ~o.ok THEN Returned(text)
    ELSE IF ~o.json THEN Raised(Exc("JSONDecodeError", "Expecting value", 38))
    ELSE IF o.body.t # "obj"
        THEN Raised(Exc("AttributeError", "object has no attribute 'get'", 39))
    ELSE IF ~StatusIs200(o.body) THEN Returned(text)
    ELSE LET rd == Get(o.body, "responseData", JObj(<<>>))
         IN  IF rd.t # "obj"
                 THEN Raised(Exc("AttributeError", "object has no attribute 'get'", 40))
             ELSE Returned(PyValue(Get(rd, "translatedText", JStr(text))))

\* lines 27-42, the body of the try statement, when requests.get ends with o
TryBlock(text, o) ==
    IF o.raises THEN Raised(Exc("ConnectionError", "request failed", 35))
    ELSE ResponseValue(o, text)

\* translate_text_mymemory without the test of response.ok (line 37)
TranslateIgnoringStatus(text, o) ==
    LET r == TryBlock(text, [o EXCEPT !.ok = TRUE])
    IN  IF r.raised THEN Returned(text) ELSE r

\* translate_text_mymemory with an except clause that names only the
\* exceptions of the HTTP client
TranslateCatchingRequestsOnly(text, o) ==
    LET r == TryBlock(text, o)
    IN  IF r.raised /\ r.e.line = 35 THEN Returned(text) ELSE r

\* translate_text_mymemory(text) when requests.get ends with outcome o
translate_text_mymemory(text, o) ==
    LET r == TryBlock(text, o)
    IN  IF r.raised THEN Returned(text) ELSE r

-----------------------------------------------------------------------------
(* translate_texts_batch *)

\* What the service did, seen from outside the client
OutcomeKind(o) ==
    IF o.raises THEN "raises"
    ELSE IF ~o.ok THEN "http_error"
    ELSE IF ~o.json THEN "not_json"
    ELSE IF o.body.t # "obj" THEN "not_object"
    ELSE IF "responseStatus" \notin DOMAIN o.body.f THEN "bad_status"
    ELSE IF o.body.f["responseStatus"] # JNum(200) THEN "bad_status"
    ELSE IF "responseData" \notin DOMAIN o.body.f THEN "no_data"
    ELSE IF o.body.f["responseData"].t # "obj" THEN "bad_data"
    ELSE IF "translatedText" \notin DOMAIN o.body.f["responseData"].f THEN "no_text"
    ELSE IF o.body.f["responseData"].f["translatedText"].t = "null" THEN "null_text"
    ELSE IF o.body.f["responseData"].f["translatedText"].s = <<>> THEN "empty_text"
    ELSE "translated"

NoCall == [text |-> <<>>, kind |-> "", value |-> <<>>]

CallEvent(i, q, failed) == [ev |-> "call", idx |-> i, q |-> q, failed |-> failed]

SleepEvent(i) == [ev |-> "sleep", idx |-> i, q |-> <<>>, failed |-> FALSE]

\* the outcomes in which the remote call failed
FailureKinds ==
    {"raises", "http_error", "not_json", "not_object", "bad_status", "no_data",
     "bad_data", "no_text"}

\* propagate the exception e from the current position
Raise(e) == pc' = "raised" /\ exc' = e

\* line 56 without the strip: only the empty string is skipped
SkipsEmptyOnly(text) == text = <<>>

\* line 56, not text.strip()
Skips(text) == ~Truthy(Strip(text))

\* line 76 looking at the next entry: no sleep before one that is skipped
SleepsBeforeCall(i) == i < Len(texts) - 1 /\ ~Skips(texts[i + 2])

\* line 76, if idx < total - 1
SleepsAfter(i) == i < Len(texts) - 1

\* One pass of the loop of lines 55-77: the element is passed through (lines
\* 56-58) or translated by one call of translate_text_mymemory (lines 60-77)
BatchIter ==
    /\ pc = "batch"
    /\ bidx < Len(texts)
    /\ LET text == texts[bidx + 1]
       IN  IF Skips(text)
               THEN /\ translated' = Append(translated, text)
                    /\ bidx' = bidx + 1
                    /\ UNCHANGED <<pc, exc, netlog, last_call>>
               ELSE \E o \in Outcomes(Query(text)) :
                      LET r == translate_text_mymemory(text, o)
                          called == Append(netlog,
                                           CallEvent(bidx, Query(text),
                                                     OutcomeKind(o) \in FailureKinds))
                      IN  /\ last_call' = [text |-> text, kind |-> OutcomeKind(o),
                                           value |-> r.value]
                          /\ IF r.raised
                                 THEN /\ Raise(r.e)
                                      /\ netlog' = called
                                      /\ UNCHANGED <<translated, bidx>>
                             ELSE IF bidx < 3 /\ r.value = None
                                 \* line 67, len(result)
                                 THEN /\ Raise(Exc("TypeError",
                                                   "object of type 'NoneType' has no len()",
                                                   67))
                                      /\ translated' = Append(translated, r.value)
                                      /\ netlog' = called
                                      /\ UNCHANGED bidx
                             ELSE /\ translated' = Append(translated, r.value)
                                  /\ netlog' = IF SleepsAfter(bidx)
                                                   THEN Append(called, SleepEvent(bidx))
                                                   ELSE called
                                  /\ bidx' = bidx + 1
                                  /\ UNCHANGED <<pc, exc>>
    /\ UNCHANGED <<upload, src_pdf, out_pdf, outPages, page_num, text_blocks, tiers, texts,
                   translated_texts, idx, fontsize, leftover, out_bytes, response>>

\* line 79 returning the list in reverse
BatchReturnReversed ==
    /\ pc = "batch"
    /\ bidx = Len(texts)
    /\ translated_texts' = [i \in 1..Len(translated) |-> translated[Len(translated) + 1 - i]]
    /\ last_call' = NoCall
    /\ idx' = 0
    /\ pc' = "region"
    /\ UNCHANGED <<upload, exc, src_pdf, out_pdf, outPages, page_num, text_blocks, tiers,
                   texts, translated, bidx, netlog, fontsize, leftover, out_bytes,
                   response>>

\* line 79, and the assignment of line 211 in the caller
BatchReturn ==
    /\ pc = "batch"
    /\ bidx = Len(texts)
    /\ translated_texts' = translated
    /\ last_call' = NoCall
    /\ idx' = 0
    /\ pc' = "region"
    /\ UNCHANGED <<upload, exc, src_pdf, out_pdf, outPages, page_num, text_blocks, tiers,
                   texts, translated, bidx, netlog, fontsize, leftover, out_bytes,
                   response>>

-----------------------------------------------------------------------------
(* extract_text_blocks *)

\* A page of the uploaded document, as the library reports it:
\*   rect    page.rect
\*   dict    page.get_text("dict"):   [raises, blocks], a block [type, lines],
\*           a line [bbox, spans], a span [text, size]; size in tenths of a point
\*   blocks  page.get_text("blocks"): [raises, blocks], a block [n, bbox, text],
\*           n the length of the tuple
\*   text    page.get_text("text"):   [raises, text]
Region(text, bbox, size) == [text |-> text, bbox |-> bbox, size |-> size]

\* the default size 12 of lines 101, 118 and 138, in tenths of a point
DefaultSize == 12 * 10

RECURSIVE SpanTexts(_)
\* lines 94-95: the concatenation of the span texts; None when a span's text
\* is no str, where += raises
SpanTexts(spans) ==
    IF spans = <<>> THEN <<>>
    ELSE IF Head(spans).text = None THEN None
    ELSE LET rest == SpanTexts(Tail(spans))
         IN  IF rest = None THEN None ELSE Head(spans).text \o rest

RECURSIVE DictLines(_)
\* lines 91-102 on the lines of one block: [regions, raised]
DictLines(lines) ==
    IF lines = <<>> THEN [regions |-> <<>>, raised |-> FALSE]
    ELSE LET line == Head(lines)
             line_text == SpanTexts(line.spans)
         IN  IF line_text = None THEN [regions |-> <<>>, raised |-> TRUE]
             ELSE LET rest == DictLines(Tail(lines))
                      here == IF Truthy(Strip(line_text))
                                  THEN <<Region(Strip(line_text), line.bbox,
                                                line.spans[1].size)>>
                                  ELSE <<>>
                  IN  [regions |-> here \o rest.regions, raised |-> rest.raised]

RECURSIVE DictBlocks(_)
\* lines 89-102 on the blocks: [regions, raised]
DictBlocks(blocks) ==
    IF blocks = <<>> THEN [regions |-> <<>>, raised |-> FALSE]
    ELSE LET here == IF Head(blocks).type = 0
                         THEN DictLines(Head(blocks).lines)
                         ELSE [regions |-> <<>>, raised |-> FALSE]
         IN  IF here.raised THEN here
             ELSE LET rest == DictBlocks(Tail(blocks))
                  IN  [regions |-> here.regions \o rest.regions, raised |-> rest.raised]

\* Method 1, lines 87-104: what text_blocks holds after it
Method1(page) ==
    IF page.dict.raises THEN <<>> ELSE DictBlocks(page.dict.blocks).regions

RECURSIVE BlockRegions(_)
\* lines 110-119: [regions, raised]
BlockRegions(blocks) ==
    IF blocks = <<>> THEN [regions |-> <<>>, raised |-> FALSE]
    ELSE LET block == Head(blocks)
         IN  IF block.n >= 5 /\ block.text = None
                 THEN [regions |-> <<>>, raised |-> TRUE]
             ELSE LET rest == BlockRegions(Tail(blocks))
                      here == IF block.n >= 5 /\ Truthy(Strip(block.text))
                                  THEN <<Region(Strip(block.text), block.bbox, DefaultSize)>>
                                  ELSE <<>>
                  IN  [regions |-> here \o rest.regions, raised |-> rest.raised]

\* Method 2, lines 108-121
Method2(page) ==
    IF page.blocks.raises THEN <<>> ELSE BlockRegions(page.blocks.blocks).regions

RECURSIVE Split(_)
\* str.split('\n')
Split(s) ==
    IF \A i \in 1..Len(s) : s[i] # "\n" THEN <<s>>
    ELSE LET k == CHOOSE i \in 1..Len(s) : s[i] = "\n" /\ \A j \in 1..(i - 1) : s[j] # "\n"
         IN  <<SubSeq(s, 1, k - 1)>> \o Split(SubSeq(s, k + 1, Len(s)))

RECURSIVE StrippedLines(_)
\* line 128: [l.strip() for l in ... if l.strip()]
StrippedLines(ls) ==
    IF ls = <<>> THEN <<>>
    ELSE (IF Truthy(Strip(Head(ls))) THEN <<Strip(Head(ls))>> ELSE <<>>)
         \o StrippedLines(Tail(ls))

\* The coordinates are Python floats. The model rounds as IEEE 754 does (to
\* the nearest float, ties to the even one) on a significand of MantissaBits
\* bits; a number is a whole count of the smallest step.
RECURSIVE Pow2(_)
Pow2(n) == IF n = 0 THEN 1 ELSE 2 * Pow2(n - 1)

\* the significands are the whole numbers below this one
SignificandEnd == Pow2(MantissaBits)

RECURSIVE SpacingFrom(_, _, _)
SpacingFrom(u, n, d) ==
    IF n < u * SignificandEnd * d THEN u ELSE SpacingFrom(2 * u, n, d)

\* the distance between neighbouring floats at the magnitude of n / d
Spacing(n, d) == SpacingFrom(1, n, d)

\* the float nearest to n / d, for n >= 0 and d > 0
Round(n, d) ==
    LET u == Spacing(n, d)
        k == n \div (d * u)
        r == n - k * d * u
    IN  IF 2 * r > d * u \/ (2 * r = d * u /\ k % 2 = 1) THEN (k + 1) * u ELSE k * u

\* a + b, a * b and a / b on floats
FloatAdd(a, b) == Round(a + b, 1)

FloatMul(a, b) == Round(a * b, 1)

FloatDiv(a, b) == Round(a, b)

\* rect.height of lines 130 and 197: y1 - y0
Height(rect) == Round(rect.y1 - rect.y0, 1)

\* rect.width of line 197: x1 - x0
Width(rect) == Round(rect.x1 - rect.x0, 1)

\* Method 3 with the bands counted from 1: line 132 with idx + 1 for idx
Method3Shifted(page) ==
    IF page.text.raises \/ ~Truthy(Strip(page.text.text)) THEN <<>>
    ELSE LET lines == StrippedLines(Split(page.text.text))
             rect == page.rect
             height_per_line ==
                 FloatDiv(Height(rect), IF Len(lines) > 1 THEN Len(lines) ELSE 1)
         IN  [i \in 1..Len(lines) |->
                LET y0 == FloatAdd(rect.y0, FloatMul(i, height_per_line))
                    y1 == FloatAdd(y0, height_per_line)
                IN  Region(lines[i], <<rect.x0, y0, rect.x1, y1>>, DefaultSize)]

\* Method 3, lines 125-141
Method3(page) ==
    IF page.text.raises \/ ~Truthy(Strip(page.text.text)) THEN <<>>
    ELSE LET lines == StrippedLines(Split(page.text.text))
             rect == page.rect
             height_per_line ==
                 FloatDiv(Height(rect), IF Len(lines) > 1 THEN Len(lines) ELSE 1)
         IN  [i \in 1..Len(lines) |->
                LET y0 == FloatAdd(rect.y0, FloatMul(i - 1, height_per_line))
                    y1 == FloatAdd(y0, height_per_line)
                IN  Region(lines[i], <<rect.x0, y0, rect.x1, y1>>, DefaultSize)]

\* whether a method raises: its library call, or the processing of the result
Method1Raises(page) == page.dict.raises \/ DictBlocks(page.dict.blocks).raised

Method2Raises(page) == page.blocks.raises \/ BlockRegions(page.blocks.blocks).raised

Method3Raises(page) == page.text.raises

\* extract_text_blocks(page), lines 82-143
extract_text_blocks(page) ==
    LET m1 == Method1(page)
    IN  IF m1 # <<>> THEN m1
        ELSE LET m2 == Method2(page)
             IN  IF m2 # <<>> THEN m2 ELSE Method3(page)

-----------------------------------------------------------------------------
(* The documents uploaded *)

PageRect == [x0 |-> 0, y0 |-> 0, x1 |-> 40, y1 |-> 60]

Span(text, size) == [text |-> text, size |-> size]

DictLine(bbox, spans) == [bbox |-> bbox, spans |-> spans]

Page(dict, blocks, text) ==
    [rect |-> PageRect, dict |-> dict, blocks |-> blocks, text |-> text]

NoDict == [raises |-> FALSE, blocks |-> <<>>]

NoBlocks == [raises |-> FALSE, blocks |-> <<>>]

NoText == [raises |-> FALSE, text |-> <<>>]

\* a page of images only, of a size of its own: no tier finds text
BlankPage ==
    [Page([raises |-> FALSE, blocks |-> <<[type |-> 1, lines |-> <<>>]>>], NoBlocks,
          [raises |-> FALSE, text |-> <<" ", "\n">>])
        EXCEPT !.rect = [x0 |-> 0, y0 |-> 0, x1 |-> 48, y1 |-> 56]]

\* a page on which every tier raises
UnreadablePage ==
    Page([raises |-> TRUE, blocks |-> <<>>], [raises |-> TRUE, blocks |-> <<>>],
         [raises |-> TRUE, text |-> <<>>])

\* a page with two lines of text, one larger than 18 points in a box too
\* narrow for its translation at any size, and one smaller than 8
TwoLinePage ==
    Page([raises |-> FALSE,
          blocks |-> <<[type |-> 0,
                        lines |-> <<DictLine(<<2, 2, 22, 22>>,
                                             <<Span(<<" ", "H">>, 205), Span(<<"i">>, 90)>>),
                                    DictLine(<<2, 30, 22, 38>>, <<Span(<<"a">>, 65)>>),
                                    DictLine(<<2, 40, 22, 48>>, <<Span(<<" ">>, 100)>>)>>]>>],
         NoBlocks, NoText)

\* a page whose structured extraction fails and whose blocks hold one text
CoarsePage ==
    Page([raises |-> TRUE, blocks |-> <<>>],
         [raises |-> FALSE,
          blocks |-> <<[n |-> 7, bbox |-> <<0, 0, 30, 10>>, text |-> <<"o", "k", "\n">>],
                       [n |-> 4, bbox |-> <<0, 0, 0, 0>>, text |-> <<>>]>>],
         NoText)

\* a page on which only the plain text is found
PlainPage ==
    Page(NoDict, [raises |-> TRUE, blocks |-> <<>>],
         [raises |-> FALSE, text |-> <<"\n", "a", "b", " ", "\n">>])

PageKinds == {BlankPage, UnreadablePage, TwoLinePage, CoarsePage, PlainPage}

RECURSIVE SeqsOfLen(_, _)
SeqsOfLen(S, n) ==
    IF n = 0 THEN {<<>>} ELSE {Append(s, x) : s \in SeqsOfLen(S, n - 1), x \in S}

NoFile == [present |-> FALSE, valid |-> FALSE, pages |-> <<>>]

Corrupt == [present |-> TRUE, valid |-> FALSE, pages |-> <<>>]

Document(pages) == [present |-> TRUE, valid |-> TRUE, pages |-> pages]

\* what a request can carry in its file field
Uploads ==
    {NoFile, Corrupt}
    \cup {Document(ps) : ps \in UNION {SeqsOfLen(PageKinds, n) : n \in 1..MaxPages}}

-----------------------------------------------------------------------------
(* POST /translate-pdf *)

batchVars == <<texts, translated, bidx, netlog, last_call>>

regionVars == <<translated_texts, idx, fontsize, leftover>>

docVars == <<src_pdf, out_pdf, outPages>>

\* an exception of the PDF library raised at a line of translate_pdf
FitzError(line) == Exc("RuntimeError", "fitz failed", line)

\* fitz.Rect(bbox), line 224
FitzRect(bbox) == [x0 |-> bbox[1], y0 |-> bbox[2], x1 |-> bbox[3], y1 |-> bbox[4]]

\* int(size) of a size given in tenths: truncation toward zero
PyInt(size) == IF size >= 0 THEN size \div 10 ELSE -((-size) \div 10)

Min(a, b) == IF a < b THEN a ELSE b

Max(a, b) == IF a > b THEN a ELSE b

\* line 230 without the clamp
UnclampedSize(size) == PyInt(size)

\* line 230: max(8, min(int(size), 18))
ClampedSize(size) == Max(8, Min(PyInt(size), 18))

\* What insert_textbox reports for a text set at fontsize in rect: whether
\* text is left over. The library's layout is taken as one line of glyphs,
\* each as wide as the font size.
InsertLeftover(rect, text, size) == Len(text) * size > rect.x1 - rect.x0

\* the drawing operations recorded on an output page
Op(op, rect, text, size, pno) ==
    [op |-> op, rect |-> rect, text |-> text, fontsize |-> size, pno |-> pno]

ShowOp(rect, pno) == Op("show_pdf_page", rect, <<>>, 0, pno)

MaskOp(rect) == Op("draw_rect", rect, <<>>, 0, 0)

TextOp(rect, text, size) == Op("insert_textbox", rect, text, size, 0)

CleanOp == Op("clean_contents", PageRect, <<>>, 0, 0)

\* outPages with op appended to the operations of its last page
Drawn(op) ==
    [outPages EXCEPT ![Len(outPages)].ops = Append(@, op)]

NoBytes == [saved |-> FALSE, pdf |-> <<>>]

\* out_pdf.save(out_bytes): the pages written to the buffer
SavedBytes(pages) == [saved |-> TRUE, pdf |-> pages]

NoResponse == [status |-> 0, mimetype |-> "", error |-> "", body |-> NoBytes]

JsonResponse(error, status) ==
    [status |-> status, mimetype |-> "application/json", error |-> error, body |-> NoBytes]

PdfResponse(bytes) ==
    [status |-> 200, mimetype |-> "application/pdf", error |-> "", body |-> bytes]

\* lines 170-173 when a file is attached or not: a request arrives
ReceiveWithoutCheck(f) ==
    /\ pc = "idle"
    /\ upload' = f
    /\ pc' = "open_src"
    /\ UNCHANGED <<exc, docVars, page_num, text_blocks, tiers, batchVars, regionVars,
                   out_bytes, response>>

Receive(f) ==
    /\ pc = "idle"
    /\ upload' = f
    /\ IF ~f.present
           THEN /\ response' = JsonResponse("No file uploaded", 400)
                /\ pc' = "done"
           ELSE /\ pc' = "open_src"
                /\ UNCHANGED response
    /\ UNCHANGED <<exc, docVars, page_num, text_blocks, tiers, batchVars, regionVars,
                   out_bytes>>

\* line 185: src_pdf = fitz.open(stream=file.read(), filetype="pdf")
OpenSrc ==
    /\ pc = "open_src"
    /\ IF upload.valid
           THEN /\ src_pdf' = "open"
                /\ pc' = "open_out"
                /\ UNCHANGED exc
           ELSE /\ Raise(Exc("FileDataError", "Failed to open stream", 185))
                /\ UNCHANGED src_pdf
    /\ UNCHANGED <<upload, out_pdf, outPages, page_num, text_blocks, tiers, batchVars,
                   regionVars, out_bytes, response>>

\* line 186: out_pdf = fitz.open(), and lines 188-189
OpenOut ==
    /\ pc = "open_out"
    /\ \E ok \in BOOLEAN :
         IF ok
             THEN /\ out_pdf' = "open"
                  /\ outPages' = <<>>
                  /\ page_num' = 0
                  /\ pc' = "page"
                  /\ UNCHANGED exc
             ELSE /\ Raise(FitzError(186))
                  /\ UNCHANGED <<out_pdf, outPages, page_num>>
    /\ UNCHANGED <<upload, src_pdf, text_blocks, tiers, batchVars, regionVars, out_bytes,
                   response>>

\* lines 193-197: the next page is taken and an output page is created
NewPage ==
    /\ pc = "page"
    /\ page_num < Len(upload.pages)
    /\ \E ok \in BOOLEAN :
         IF ok
             THEN LET rect == upload.pages[page_num + 1].rect
                  IN  /\ outPages' = Append(outPages, [width |-> Width(rect),
                                                       height |-> Height(rect),
                                                       ops |-> <<>>])
                      /\ pc' = "show"
                      /\ UNCHANGED exc
             ELSE /\ Raise(FitzError(197))
                  /\ UNCHANGED outPages
    /\ UNCHANGED <<upload, src_pdf, out_pdf, page_num, text_blocks, tiers, batchVars,
                   regionVars, out_bytes, response>>

\* line 198 showing the first page of src_pdf whatever page_num is
ShowFirstPage ==
    /\ pc = "show"
    /\ \E ok \in BOOLEAN :
         IF ok
             THEN /\ outPages' = Drawn(ShowOp(upload.pages[1].rect, 0))
                  /\ pc' = "extract"
                  /\ UNCHANGED exc
             ELSE /\ Raise(FitzError(198))
                  /\ UNCHANGED outPages
    /\ UNCHANGED <<upload, src_pdf, out_pdf, page_num, text_blocks, tiers, batchVars,
                   regionVars, out_bytes, response>>

\* line 198: out_page.show_pdf_page(rect, src_pdf, page_num)
ShowPdfPage ==
    /\ pc = "show"
    /\ \E ok \in BOOLEAN :
         IF ok
             THEN /\ outPages' = Drawn(ShowOp(upload.pages[page_num + 1].rect, page_num))
                  /\ pc' = "extract"
                  /\ UNCHANGED exc
             ELSE /\ Raise(FitzError(198))
                  /\ UNCHANGED outPages
    /\ UNCHANGED <<upload, src_pdf, out_pdf, page_num, text_blocks, tiers, batchVars,
                   regionVars, out_bytes, response>>

\* lines 200-210 without the continue of line 204
ExtractNoSkip ==
    /\ pc = "extract"
    /\ text_blocks' = extract_text_blocks(upload.pages[page_num + 1])
    /\ texts' = [i \in 1..Len(text_blocks') |-> text_blocks'[i].text]
    /\ translated' = <<>>
    /\ bidx' = 0
    /\ netlog' = <<>>
    /\ pc' = "batch"
    /\ UNCHANGED <<upload, exc, docVars, page_num, tiers, last_call, regionVars, out_bytes,
                   response>>

\* lines 200-210: the regions of the page; a page without any is skipped
Extract ==
    /\ pc = "extract"
    /\ text_blocks' = extract_text_blocks(upload.pages[page_num + 1])
    /\ IF text_blocks' = <<>>
           THEN /\ page_num' = page_num + 1
                /\ pc' = "page"
                /\ UNCHANGED <<texts, translated, bidx, netlog>>
           ELSE /\ texts' = [i \in 1..Len(text_blocks') |-> text_blocks'[i].text]
                /\ translated' = <<>>
                /\ bidx' = 0
                /\ netlog' = <<>>
                /\ pc' = "batch"
                /\ UNCHANGED page_num
    /\ UNCHANGED <<upload, exc, docVars, tiers, last_call, regionVars, out_bytes,
                   response>>

\* the test of line 242 with the floor compared by >=
AfterInsertFloorIncluded(left, size) ==
    IF left /\ size >= 8
        THEN /\ pc' = "shrink"
             /\ UNCHANGED idx
        ELSE /\ pc' = "region"
             /\ idx' = idx + 1

\* After an insert_textbox at size: the test of line 242, then either the
\* loop body is entered or the region loop moves on
AfterInsert(left, size) ==
    IF left /\ size > 8
        THEN /\ pc' = "shrink"
             /\ UNCHANGED idx
        ELSE /\ pc' = "region"
             /\ idx' = idx + 1

\* lines 220-227: the next region's box is masked
MaskFirst ==
    /\ pc = "region"
    /\ idx < Len(text_blocks)
    /\ \E ok \in BOOLEAN :
         IF ok
             THEN /\ outPages' = Drawn(MaskOp(FitzRect(text_blocks[idx + 1].bbox)))
                  /\ pc' = "insert"
                  /\ UNCHANGED exc
             ELSE /\ Raise(FitzError(227))
                  /\ UNCHANGED outPages
    /\ UNCHANGED <<upload, src_pdf, out_pdf, page_num, text_blocks, tiers, batchVars,
                   regionVars, out_bytes, response>>

\* One insert_textbox of the current region at size (lines 232-240, 245-253)
Insert(size, line) ==
    LET rect == FitzRect(text_blocks[idx + 1].bbox)
        text == translated_texts[idx + 1]
    IN  /\ fontsize' = size
        /\ IF text = None
               THEN /\ Raise(Exc("TypeError", "bad text", line))
                    /\ UNCHANGED <<outPages, leftover, idx>>
               ELSE \E ok \in BOOLEAN :
                      IF ok
                          THEN /\ outPages' = Drawn(TextOp(rect, text, size))
                               /\ leftover' = InsertLeftover(rect, text, size)
                               /\ AfterInsert(leftover', size)
                               /\ UNCHANGED exc
                          ELSE /\ Raise(FitzError(line))
                               /\ UNCHANGED <<outPages, leftover, idx>>
        /\ UNCHANGED <<upload, src_pdf, out_pdf, page_num, text_blocks, tiers, batchVars,
                       translated_texts, out_bytes, response>>

\* lines 230-242: the first placement attempt, at the clamped size
InsertFirst ==
    /\ pc = "insert"
    /\ Insert(ClampedSize(text_blocks[idx + 1].size), 232)

\* lines 243-244 without the draw_rect of line 244
ShrinkWithoutMask ==
    /\ pc = "shrink"
    /\ fontsize' = fontsize - 1
    /\ pc' = "reinsert"
    /\ UNCHANGED <<upload, exc, docVars, page_num, text_blocks, tiers, batchVars,
                   translated_texts, idx, leftover, out_bytes, response>>

\* lines 243-244: the size is decremented and the box masked again
ShrinkMask ==
    /\ pc = "shrink"
    /\ fontsize' = fontsize - 1
    /\ \E ok \in BOOLEAN :
         IF ok
             THEN /\ outPages' = Drawn(MaskOp(FitzRect(text_blocks[idx + 1].bbox)))
                  /\ pc' = "reinsert"
                  /\ UNCHANGED exc
             ELSE /\ Raise(FitzError(244))
                  /\ UNCHANGED outPages
    /\ UNCHANGED <<upload, src_pdf, out_pdf, page_num, text_blocks, tiers, batchVars,
                   translated_texts, idx, leftover, out_bytes, response>>

\* lines 245-253 and the test of line 242
ShrinkInsert ==
    /\ pc = "reinsert"
    /\ Insert(fontsize, 245)

\* line 255, and the end of the page loop's body
CleanContents ==
    /\ pc = "region"
    /\ idx = Len(text_blocks)
    /\ \E ok \in BOOLEAN :
         IF ok
             THEN /\ outPages' = Drawn(CleanOp)
                  /\ page_num' = page_num + 1
                  /\ pc' = "page"
                  /\ UNCHANGED exc
             ELSE /\ Raise(FitzError(255))
                  /\ UNCHANGED <<outPages, page_num>>
    /\ UNCHANGED <<upload, src_pdf, out_pdf, text_blocks, tiers, batchVars, regionVars,
                   out_bytes, response>>

\* lines 258-262: the output document is serialized
Save ==
    /\ pc = "page"
    /\ page_num = Len(upload.pages)
    /\ \E ok \in BOOLEAN :
         IF ok
             THEN /\ out_bytes' = SavedBytes(outPages)
                  /\ pc' = "send"
                  /\ UNCHANGED exc
             ELSE /\ Raise(FitzError(259))
                  /\ UNCHANGED out_bytes
    /\ UNCHANGED <<upload, docVars, page_num, text_blocks, tiers, batchVars, regionVars,
                   response>>

\* lines 269-274: return send_file(out_bytes, mimetype="application/pdf", ...)
SendFile ==
    /\ pc = "send"
    /\ \E ok \in BOOLEAN :
         IF ok
             THEN /\ response' = PdfResponse(out_bytes)
                  /\ pc' = "finally"
                  /\ UNCHANGED exc
             ELSE /\ Raise(Exc("OSError", "send_file failed", 269))
                  /\ UNCHANGED response
    /\ UNCHANGED <<upload, docVars, page_num, text_blocks, tiers, batchVars, regionVars,
                   out_bytes>>

\* f"{type(e).__name__}: {str(e)}", line 277
ErrorMsg(e) == e.kind \o ": " \o e.msg

\* an except clause inside the page loop that drops the failed page and
\* goes on with the next one
ExceptSkipsPage ==
    /\ pc = "raised"
    /\ IF exc.line \in 194..255 /\ page_num < Len(upload.pages)
           THEN /\ page_num' = page_num + 1
                /\ pc' = "page"
                /\ UNCHANGED response
           ELSE /\ response' = JsonResponse(ErrorMsg(exc), 500)
                /\ pc' = "finally"
                /\ UNCHANGED page_num
    /\ UNCHANGED <<upload, exc, docVars, text_blocks, tiers, batchVars, regionVars,
                   out_bytes>>

\* lines 276-280: except Exception as e
ExceptHandler ==
    /\ pc = "raised"
    /\ response' = JsonResponse(ErrorMsg(exc), 500)
    /\ pc' = "finally"
    /\ UNCHANGED <<upload, exc, docVars, page_num, text_blocks, tiers, batchVars, regionVars,
                   out_bytes>>

\* close() of a document
Closed(doc) == IF doc = "open" THEN "closed" ELSE doc

\* a finally clause that closes the source document only
FinallySourceOnly ==
    /\ pc = "finally"
    /\ src_pdf' = Closed(src_pdf)
    /\ pc' = "done"
    /\ UNCHANGED <<upload, exc, out_pdf, outPages, page_num, text_blocks, tiers, batchVars,
                   regionVars, out_bytes, response>>

\* lines 282-286, after which the response is returned
Finally ==
    /\ pc = "finally"
    /\ src_pdf' = Closed(src_pdf)
    /\ out_pdf' = Closed(out_pdf)
    /\ pc' = "done"
    /\ UNCHANGED <<upload, exc, outPages, page_num, text_blocks, tiers, batchVars, regionVars,
                   out_bytes, response>>

\* The server waits for a request
Init ==
    /\ pc = "idle"
    /\ upload = NoFile
    /\ exc = NoExc
    /\ src_pdf = "unbound"
    /\ out_pdf = "unbound"
    /\ outPages = <<>>
    /\ page_num = 0
    /\ text_blocks = <<>>
    /\ tiers = <<>>
    /\ texts = <<>>
    /\ translated = <<>>
    /\ bidx = 0
    /\ netlog = <<>>
    /\ last_call = NoCall
    /\ translated_texts = <<>>
    /\ idx = 0
    /\ fontsize = 0
    /\ leftover = FALSE
    /\ out_bytes = NoBytes
    /\ response = NoResponse

Request == \E f \in Uploads : Receive(f)

Next ==
    \/ Request
    \/ OpenSrc
    \/ OpenOut
    \/ NewPage
    \/ ShowPdfPage
    \/ Extract
    \/ BatchIter
    \/ BatchReturn
    \/ MaskFirst
    \/ InsertFirst
    \/ ShrinkMask
    \/ ShrinkInsert
    \/ CleanContents
    \/ Save
    \/ SendFile
    \/ ExceptHandler
    \/ Finally

Spec == Init /\ [][Next]_vars

-----------------------------------------------------------------------------
(* translate_texts_batch on its own *)

\* the strings handed to translate_texts_batch when it is called on its own
BatchTexts == {<<>>, <<" ">>, <<"a">>, <<" ", "a">>}

RECURSIVE SeqsUpTo(_, _)
SeqsUpTo(S, n) ==
    IF n = 0 THEN {<<>>}
    ELSE LET shorter == SeqsUpTo(S, n - 1)
         IN  shorter \cup {Append(s, x) : s \in shorter, x \in S}

\* translate_texts_batch called with any list of at most MaxBatch strings
InitBatch ==
    /\ texts \in SeqsUpTo(BatchTexts, MaxBatch)
    /\ pc = "batch"
    /\ translated = <<>>
    /\ bidx = 0
    /\ netlog = <<>>
    /\ last_call = NoCall
    /\ translated_texts = <<>>
    /\ upload = NoFile
    /\ exc = NoExc
    /\ src_pdf = "unbound"
    /\ out_pdf = "unbound"
    /\ outPages = <<>>
    /\ page_num = 0
    /\ text_blocks = <<>>
    /\ tiers = <<>>
    /\ idx = 0
    /\ fontsize = 0
    /\ leftover = FALSE
    /\ out_bytes = NoBytes
    /\ response = NoResponse

NextBatch == BatchIter \/ BatchReturn

SpecBatch == InitBatch /\ [][NextBatch]_vars

-----------------------------------------------------------------------------
(* extract_text_blocks on its own, method by method *)

\* what page.get_text("dict") can give
DictResults ==
    LET good == DictLine(<<2, 2, 22, 22>>, <<Span(<<"H", "i">>, 120)>>)
        bad == DictLine(<<2, 30, 22, 38>>, <<Span(None, 120)>>)
        Of(lines) == [raises |-> FALSE, blocks |-> <<[type |-> 0, lines |-> lines]>>]
    IN  {[raises |-> TRUE, blocks |-> <<>>], NoDict, BlankPage.dict,
         Of(<<good>>), Of(<<good, bad>>), Of(<<bad, good>>)}

\* what page.get_text("blocks") can give
BlocksResults ==
    LET good == [n |-> 7, bbox |-> <<0, 0, 30, 10>>, text |-> <<"o", "k", "\n">>]
        bad == [n |-> 7, bbox |-> <<0, 20, 30, 30>>, text |-> None]
        short == [n |-> 4, bbox |-> <<0, 0, 0, 0>>, text |-> <<>>]
    IN  {[raises |-> TRUE, blocks |-> <<>>], NoBlocks,
         [raises |-> FALSE, blocks |-> <<short>>],
         [raises |-> FALSE, blocks |-> <<good, short>>],
         [raises |-> FALSE, blocks |-> <<good, bad>>]}

\* what page.get_text("text") can give
TextResults ==
    {[raises |-> TRUE, text |-> <<>>], NoText,
     [raises |-> FALSE, text |-> <<" ", "\n">>],
     [raises |-> FALSE, text |-> <<"a">>],
     [raises |-> FALSE, text |-> <<"a", "\n", "b", " ">>],
     [raises |-> FALSE, text |-> <<"a", "\n", " ", "\n", "b", "\n", "c", "\n">>]}

\* page.rect
PageRects == {PageRect, [x0 |-> 0, y0 |-> 0, x1 |-> 40, y1 |-> 52]}

\* the pages extract_text_blocks is called with
ExtractPages ==
    {[rect |-> r, dict |-> d, blocks |-> b, text |-> t] :
        r \in PageRects, d \in DictResults, b \in BlocksResults, t \in TextResults}

\* the argument of extract_text_blocks
ThePage == upload.pages[page_num + 1]

\* one method run: the regions it appended and whether it raised
Tier(method, regions, raised) ==
    [method |-> method, regions |-> regions, raised |-> raised]

extractRest ==
    <<upload, exc, docVars, page_num, batchVars, regionVars, out_bytes, response>>

\* lines 86-104
TryDict ==
    /\ pc = "method1"
    /\ text_blocks' = text_blocks \o Method1(ThePage)
    /\ tiers' = Append(tiers, Tier("dict", Method1(ThePage), Method1Raises(ThePage)))
    /\ pc' = "method2"
    /\ UNCHANGED extractRest

\* lines 107-121 with the test of line 107 dropped
TryBlocksAlways ==
    /\ pc = "method2"
    /\ text_blocks' = text_blocks \o Method2(ThePage)
    /\ tiers' = Append(tiers, Tier("blocks", Method2(ThePage), Method2Raises(ThePage)))
    /\ pc' = "method3"
    /\ UNCHANGED extractRest

\* lines 107-121
TryBlocks ==
    /\ pc = "method2"
    /\ IF text_blocks = <<>>
           THEN /\ text_blocks' = text_blocks \o Method2(ThePage)
                /\ tiers' = Append(tiers, Tier("blocks", Method2(ThePage),
                                               Method2Raises(ThePage)))
           ELSE UNCHANGED <<text_blocks, tiers>>
    /\ pc' = "method3"
    /\ UNCHANGED extractRest

\* lines 124-141
TryText ==
    /\ pc = "method3"
    /\ IF text_blocks = <<>>
           THEN /\ text_blocks' = text_blocks \o Method3(ThePage)
                /\ tiers' = Append(tiers, Tier("text", Method3(ThePage),
                                               Method3Raises(ThePage)))
           ELSE UNCHANGED <<text_blocks, tiers>>
    /\ pc' = "return"
    /\ UNCHANGED extractRest

\* line 143
ExtractReturn ==
    /\ pc = "return"
    /\ pc' = "returned"
    /\ UNCHANGED <<text_blocks, tiers, extractRest>>

\* extract_text_blocks called with any of the pages
InitExtract ==
    /\ upload \in {Document(<<page>>) : page \in ExtractPages}
    /\ pc = "method1"
    /\ text_blocks = <<>>
    /\ tiers = <<>>
    /\ page_num = 0
    /\ exc = NoExc
    /\ src_pdf = "unbound"
    /\ out_pdf = "unbound"
    /\ outPages = <<>>
    /\ texts = <<>>
    /\ translated = <<>>
    /\ bidx = 0
    /\ netlog = <<>>
    /\ last_call = NoCall
    /\ translated_texts = <<>>
    /\ idx = 0
    /\ fontsize = 0
    /\ leftover = FALSE
    /\ out_bytes = NoBytes
    /\ response = NoResponse

NextExtract == TryDict \/ TryBlocks \/ TryText \/ ExtractReturn

SpecExtract == InitExtract /\ [][NextExtract]_vars

-----------------------------------------------------------------------------
(* Properties of the translation client *)

\* the translation step has called the service for a string
Called == last_call.kind # ""

\* C1: translate_text_mymemory raises nothing, and when the remote call failed
\* (the request raised, the status was no success, the body was no JSON
\* object, responseStatus was not 200, or responseData or translatedText was
\* missing or malformed) it returns exactly the input text.
C1_FailureReturnsInput ==
    /\ Called /\ last_call.kind \in FailureKinds => last_call.value = last_call.text
    /\ pc = "raised" => exc.line \notin 24..45

C1_Witness ==
    /\ last_call.kind \in {"not_json", "bad_data"}
    /\ last_call.text = <<" ", "a">>
    /\ last_call.value = <<" ", "a">>
    /\ pc = "batch"

\* C2: for a non-empty input text translate_text_mymemory returns a non-empty
\* string, the service's translation or the original text, and never None.
C2_NonEmptyResult ==
    Called /\ last_call.text # <<>> =>
        /\ last_call.value # None
        /\ last_call.value # <<>>
        /\ last_call.value \in {last_call.text, Hindi(Query(last_call.text))}

\* C4: a string of whitespace only, or the empty string, is passed through
\* unchanged at its position without a network call; only strings with a
\* character that is no whitespace are sent.
IsBlank(s) == \A j \in 1..Len(s) : IsSpace(s[j])

CallsFor(i) == {k \in 1..Len(netlog) : netlog[k].ev = "call" /\ netlog[k].idx = i}

C4_BlankPassedThrough ==
    /\ \A i \in 1..Len(translated) :
         IsBlank(texts[i]) => translated[i] = texts[i] /\ CallsFor(i - 1) = {}
    /\ \A k \in 1..Len(netlog) :
         netlog[k].ev = "call" => ~IsBlank(texts[netlog[k].idx + 1])

C4_Witness ==
    /\ Len(translated) = 3
    /\ texts = <<<<" ">>, <<"a">>, <<>>>>
    /\ translated[1] = <<" ">>
    /\ translated[3] = <<>>
    /\ CallsFor(1) # {}

-----------------------------------------------------------------------------
(* Properties of POST /translate-pdf *)

\* the regions of the page in work whose translation call failed
FailedRegions ==
    {i \in 1..Len(text_blocks) :
        \E k \in 1..Len(netlog) :
            netlog[k].ev = "call" /\ netlog[k].idx = i - 1 /\ netlog[k].failed}

Placing == pc \in {"region", "insert", "shrink", "reinsert"}

\* the text placements on the page in work
TextOpsOfPage ==
    IF outPages = <<>> THEN {}
    ELSE {o \in {outPages[Len(outPages)].ops[k] : k \in 1..Len(outPages[Len(outPages)].ops)} :
            o.op = "insert_textbox"}

\* C3: a failure of the translation service for a region's text is absorbed:
\* the text placed in the region's box is the original text, and no exception
\* leaves the translation step because of it, so the failure never makes the
\* request end with a 500.
C3_TranslationFailureAbsorbed ==
    /\ Placing =>
         \A i \in FailedRegions :
            /\ translated_texts[i] = text_blocks[i].text
            /\ \A o \in TextOpsOfPage :
                 o.rect = FitzRect(text_blocks[i].bbox) => o.text = text_blocks[i].text
    /\ exc.line \in 24..79 => last_call.kind \notin FailureKinds
    /\ Called /\ last_call.kind \in FailureKinds => pc = "batch"

C3_Witness ==
    /\ pc = "done"
    /\ response.status = 200
    /\ FailedRegions = {1}
    /\ Len(text_blocks) = 2
    /\ \E o \in TextOpsOfPage : o.text = text_blocks[1].text
    /\ \E o \in TextOpsOfPage : o.text = Hindi(text_blocks[2].text)

\* C5: when the response is returned no document the request opened is still
\* open, on the success path and on every failure path.
C5_DocumentsClosed ==
    pc = "done" => src_pdf # "open" /\ out_pdf # "open"

C5_Witness ==
    /\ pc = "done"
    /\ response.status = 500
    /\ src_pdf = "closed"
    /\ out_pdf = "closed"
    /\ exc.line = 259

\* C6: a failure of parsing or of any step of a page ends the request at once
\* with a 500 JSON error "<kind>: <message>" and no PDF body, no later page
\* being processed; a 200 PDF response is sent only after every page was
\* processed and the output serialized.
C6_NoPartialDocument ==
    /\ exc # NoExc =>
         /\ pc \in {"raised", "finally", "done"}
         /\ response.status \in {0, 500}
         /\ pc # "raised" => response = JsonResponse(exc.kind \o ": " \o exc.msg, 500)
    /\ response.status = 500 => response.body = NoBytes /\ exc # NoExc
    /\ response.status = 200 =>
         /\ response.mimetype = "application/pdf"
         /\ page_num = Len(upload.pages)
         /\ Len(outPages) = Len(upload.pages)
         /\ response.body = SavedBytes(outPages)
         /\ exc = NoExc

C6_Witness ==
    /\ pc = "done"
    /\ response = JsonResponse("RuntimeError: fitz failed", 500)
    /\ exc.line = 245
    /\ page_num = 0
    /\ Len(outPages) = 1
    /\ Len(upload.pages) = 2

\* C7: a request without a file ends at once with 400 and the body
\* {"error": "No file uploaded"}; nothing is opened, extracted, translated or
\* drawn; and 400 is the outcome of no other request.
C7_NoFileIs400 ==
    /\ response.status = 400 <=> pc # "idle" /\ ~upload.present
    /\ pc # "idle" /\ ~upload.present =>
         /\ pc = "done"
         /\ response = JsonResponse("No file uploaded", 400)
         /\ src_pdf = "unbound"
         /\ out_pdf = "unbound"
         /\ outPages = <<>>
         /\ text_blocks = <<>>
         /\ netlog = <<>>

C7_Witness ==
    /\ pc = "done"
    /\ upload = NoFile
    /\ response.status = 400

\* the text placements of the whole output document
AllTextOps ==
    UNION {{outPages[p].ops[k] : k \in 1..Len(outPages[p].ops)} : p \in 1..Len(outPages)}

\* C8: the font size of every placement attempt, the first and every retry,
\* is an integer from 8 to 18, whatever the size of the region.
C8_FontSizeInRange ==
    /\ \A o \in AllTextOps : o.op = "insert_textbox" => o.fontsize \in 8..18
    /\ pc \in {"shrink", "reinsert"} \/ exc.line \in {232, 245} => fontsize \in 8..18

C8_Witness ==
    /\ \E o \in AllTextOps : o.op = "insert_textbox" /\ o.fontsize = 18
    /\ \E o \in AllTextOps : o.op = "insert_textbox" /\ o.fontsize = 8
    /\ \E o \in AllTextOps : o.op = "insert_textbox" /\ o.fontsize = 12
    /\ \E i \in 1..Len(text_blocks) : text_blocks[i].size = 205
    /\ \E i \in 1..Len(text_blocks) : text_blocks[i].size = 65

\* the kinds of page on which every tier of the extraction yields no region
TextlessKinds ==
    {page \in PageKinds :
        Method1(page) = <<>> /\ Method2(page) = <<>> /\ Method3(page) = <<>>}

\* every tier of the extraction yields no region on the page
AllTiersEmpty(page) == page \in TextlessKinds

\* C9: a page on which all three tiers yield no region keeps exactly the copy
\* of the input page: no mask, no text and no cleanup is drawn on it, no
\* translation step runs for it, and the handler goes on to the next page.
C9_EmptyPageUntouched ==
    \A p \in 1..Len(outPages) :
        AllTiersEmpty(upload.pages[p]) =>
            /\ outPages[p].ops \in {<<>>, <<ShowOp(upload.pages[p].rect, p - 1)>>}
            /\ p <= page_num => outPages[p].ops = <<ShowOp(upload.pages[p].rect, p - 1)>>
            /\ p = page_num + 1 =>
                 /\ pc \in {"show", "extract", "raised", "finally", "done"}
                 /\ exc.line \in {0, 198}

C9_Witness ==
    /\ pc = "done"
    /\ response.status = 200
    /\ Len(upload.pages) = 2
    /\ upload.pages[1] = BlankPage
    /\ ~AllTiersEmpty(upload.pages[2])
    /\ outPages[1].ops = <<ShowOp(BlankPage.rect, 0)>>
    /\ Len(outPages[2].ops) > 2

\* C10: every text placement, the first of a region and every retry, comes
\* directly after a mask drawn on the same box.
C10_MaskBeforeEveryPlacement ==
    \A p \in 1..Len(outPages) :
        \A k \in 1..Len(outPages[p].ops) :
            outPages[p].ops[k].op = "insert_textbox" =>
                /\ k > 1
                /\ outPages[p].ops[k - 1] = MaskOp(outPages[p].ops[k].rect)

C10_Witness ==
    \E p \in 1..Len(outPages) :
        \E k \in 1..Len(outPages[p].ops) :
            /\ k > 4
            /\ outPages[p].ops[k].op = "insert_textbox"
            /\ outPages[p].ops[k - 2].op = "insert_textbox"
            /\ outPages[p].ops[k - 2].rect = outPages[p].ops[k].rect
            /\ outPages[p].ops[k - 4].op = "insert_textbox"

\* the regions of every kind of page
RegionsOfKind == [page \in PageKinds |-> extract_text_blocks(page)]

\* the regions of page p of the upload
RegionsOf(p) == RegionsOfKind[upload.pages[p]]

\* the placement attempts made on page p into rect, in the order made
Attempts(p, rect) ==
    LET InRect(o) == o.op = "insert_textbox" /\ o.rect = rect
    IN  SelectSeq(outPages[p].ops, InRect)

\* the size of the first attempt for a region of a size given in tenths
StartSize(size) == IF size < 80 THEN 8 ELSE IF size >= 190 THEN 18 ELSE size \div 10

\* region i of page p has been left by the region loop
RegionDone(p, i) ==
    \/ p <= page_num
    \/ p = page_num + 1 /\ Placing /\ i <= idx

\* C11: the attempts for a region start at the clamped size and go down by
\* exactly 1; a further attempt is made only after one that left text over at
\* a size above 8, so there are at most 11; the loop is left at the first
\* attempt without leftover or after the attempt at size 8, whose leftover is
\* accepted, and the next region follows.
C11_ShrinkLoopBounded ==
    \A p \in 1..Len(outPages) :
        LET regions == RegionsOf(p)
        IN  \A i \in 1..Len(regions) :
                LET rect == FitzRect(regions[i].bbox)
                    start == StartSize(regions[i].size)
                    att == Attempts(p, rect)
                    n == Len(att)
                IN  /\ n <= 11
                    /\ \A k \in 1..n : att[k].fontsize = start - (k - 1)
                    /\ \A k \in 1..(n - 1) :
                         /\ InsertLeftover(rect, att[k].text, att[k].fontsize)
                         /\ att[k].fontsize > 8
                    /\ RegionDone(p, i) =>
                         /\ n >= 1
                         /\ \/ ~InsertLeftover(rect, att[n].text, att[n].fontsize)
                            \/ att[n].fontsize = 8

C11_Witness ==
    /\ pc = "done"
    /\ response.status = 200
    /\ \E p \in 1..Len(outPages) :
         LET rect == FitzRect(RegionsOf(p)[1].bbox)
             att == Attempts(p, rect)
         IN  /\ Len(RegionsOf(p)) = 2
             /\ Len(att) = 11
             /\ att[1].fontsize = 18
             /\ att[11].fontsize = 8
             /\ InsertLeftover(rect, att[11].text, 8)
             /\ Len(Attempts(p, FitzRect(RegionsOf(p)[2].bbox))) = 1

-----------------------------------------------------------------------------
(* Properties of the extraction *)

\* extract_text_blocks has run to its return
Extracted == pc \in {"return", "returned"}

\* the run of a method, if it was run
Ran(method) == \E k \in 1..Len(tiers) : tiers[k].method = method

\* the method after a method
NextMethod(method) == IF method = "dict" THEN "blocks" ELSE "text"

\* the call as a whole gives what its methods gave one by one
ExtractAgrees == pc = "returned" => text_blocks = extract_text_blocks(ThePage)

\* C12: a method that raised counts as having found nothing: no exception
\* leaves extract_text_blocks, the list returned holds no region of a method
\* that raised, and the method after one that raised is run.
C12_FailedTierYieldsNothing ==
    /\ exc = NoExc
    /\ pc # "raised"
    /\ Extracted =>
         \A k \in 1..Len(tiers) :
            tiers[k].raised =>
               /\ \A i \in 1..Len(text_blocks), j \in 1..Len(tiers[k].regions) :
                     text_blocks[i] # tiers[k].regions[j]
               /\ tiers[k].method # "text" => Ran(NextMethod(tiers[k].method))

\* the place of a method in the chain
Rank(method) == IF method = "dict" THEN 1 ELSE IF method = "blocks" THEN 2 ELSE 3

\* the regions a method appended, none if it was not run
Yield(method) ==
    IF Ran(method)
        THEN (CHOOSE t \in {tiers[k] : k \in 1..Len(tiers)} : t.method = method).regions
        ELSE <<>>

\* C13: the methods run in the order dict, blocks, text; once its turn has
\* passed, blocks was run exactly if dict appended no region, and text exactly
\* if neither dict nor blocks appended one; the list returned is what a single
\* method appended.
C13_FallbackChain ==
    /\ \A k \in 1..Len(tiers) : Rank(tiers[k].method) >= k
    /\ \A k \in 1..(Len(tiers) - 1) : Rank(tiers[k].method) < Rank(tiers[k + 1].method)
    /\ pc # "method1" => Ran("dict")
    /\ pc \notin {"method1", "method2"} => (Ran("blocks") <=> Yield("dict") = <<>>)
    /\ Extracted => (Ran("text") <=> Yield("dict") = <<>> /\ Yield("blocks") = <<>>)
    /\ Cardinality({k \in 1..Len(tiers) : tiers[k].regions # <<>>}) <= 1
    /\ \/ text_blocks = <<>> /\ \A k \in 1..Len(tiers) : tiers[k].regions = <<>>
       \/ \E k \in 1..Len(tiers) : text_blocks = tiers[k].regions

C13_Witness ==
    /\ pc = "returned"
    /\ Len(tiers) = 3
    /\ tiers[1].raised
    /\ ~tiers[2].raised
    /\ text_blocks # <<>>
    /\ text_blocks = tiers[3].regions

-----------------------------------------------------------------------------
(* Properties of the batch and of the page loop *)

\* what translate_texts_batch may put in the place of text
ResultsFor(text) ==
    IF Skips(text) THEN {text}
    ELSE {translate_text_mymemory(text, o).value : o \in Outcomes(Query(text))}

\* C14: the list built by translate_texts_batch has, at place i, a result for
\* the input at place i (its translation, the text itself, or the blank string
\* passed through), and is returned whole; in the region loop every text put
\* into the box of region i is element i of that list, the result for the text
\* of region i.
C14_IndexCorrespondence ==
    /\ pc = "batch" =>
         /\ Len(translated) = bidx
         /\ bidx <= Len(texts)
         /\ \A i \in 1..Len(translated) : translated[i] \in ResultsFor(texts[i])
    /\ Placing =>
         /\ translated_texts = translated
         /\ Len(translated_texts) = Len(texts)
    /\ Placing /\ outPages # <<>> =>
         /\ Len(texts) = Len(text_blocks)
         /\ \A i \in 1..Len(text_blocks) :
              LET att == Attempts(Len(outPages), FitzRect(text_blocks[i].bbox))
              IN  /\ texts[i] = text_blocks[i].text
                  /\ \A k \in 1..Len(att) : att[k].text = translated_texts[i]

C14_Witness ==
    /\ pc = "region"
    /\ Len(text_blocks) = 2
    /\ idx = 2
    /\ translated_texts[1] = Hindi(text_blocks[1].text)
    /\ translated_texts[2] = text_blocks[2].text
    /\ \A i \in 1..2 :
         Attempts(Len(outPages), FitzRect(text_blocks[i].bbox)) # <<>>

\* output page i is the page made for input page i: of its width and height,
\* and with the copy of it as the first thing drawn, if anything is drawn
PageMadeFor(out, i) ==
    /\ out.width = Width(upload.pages[i].rect)
    /\ out.height = Height(upload.pages[i].rect)
    /\ out.ops # <<>> => out.ops[1] = ShowOp(upload.pages[i].rect, i - 1)
    /\ \A k \in 2..Len(out.ops) : out.ops[k].op # "show_pdf_page"

\* positions inside the body of the page loop
InPage == pc \in {"show", "extract", "batch", "region", "insert", "shrink", "reinsert"}

\* C15: the output grows by one page per input page, in order: with k pages
\* processed it has k pages, one more while a page is in work; output page i
\* has the width and height of input page i, and the copy of input page i is
\* on it before any mask or text; the document of a 200 response has exactly
\* one such page for every input page.
C15_OnePagePerInputPage ==
    /\ pc = "page" => Len(outPages) = page_num
    /\ InPage => Len(outPages) = page_num + 1
    /\ pc \notin {"show", "raised", "finally", "done"} =>
         \A i \in 1..Len(outPages) : outPages[i].ops # <<>>
    /\ Len(outPages) <= Len(upload.pages)
    /\ \A i \in 1..Len(outPages) : PageMadeFor(outPages[i], i)
    /\ response.status = 200 =>
         /\ Len(response.body.pdf) = Len(upload.pages)
         /\ \A i \in 1..Len(response.body.pdf) :
              /\ PageMadeFor(response.body.pdf[i], i)
              /\ response.body.pdf[i].ops # <<>>

C15_Witness ==
    /\ response.status = 200
    /\ Len(response.body.pdf) = 2
    /\ response.body.pdf[1].width # response.body.pdf[2].width
    /\ response.body.pdf[1].height # response.body.pdf[2].height
    /\ \E k \in 2..Len(response.body.pdf[2].ops) :
         response.body.pdf[2].ops[k].op = "insert_textbox"

\* the places of the network calls in the log of the batch
CallPlaces == {k \in 1..Len(netlog) : netlog[k].ev = "call"}

\* C16: the calls of one batch are made one at a time in increasing order of
\* index, one for every entry that is not blank and none for a blank one, and
\* between any two calls that follow each other there is a sleep, blank
\* entries between them or not.
C16_SequentialWithDelay ==
    /\ \A k, l \in CallPlaces :
         k < l =>
           /\ netlog[k].idx < netlog[l].idx
           /\ \E m \in (k + 1)..(l - 1) : netlog[m].ev = "sleep"
    /\ \A k \in CallPlaces :
         /\ netlog[k].idx < Len(texts)
         /\ ~Skips(texts[netlog[k].idx + 1])
         /\ k > 1 => netlog[k - 1].ev = "sleep"
    /\ pc = "batch" =>
         \A i \in 0..(bidx - 1) :
            ~Skips(texts[i + 1]) => \E k \in CallPlaces : netlog[k].idx = i
    /\ \A m \in 1..Len(netlog) :
         netlog[m].ev = "sleep" => m > 1 /\ netlog[m - 1].ev = "call"

C16_Witness ==
    /\ pc = "region"
    /\ Len(texts) = 3
    /\ Skips(texts[2])
    /\ Cardinality(CallPlaces) = 2
    /\ Len(netlog) = 3
    /\ netlog[2].ev = "sleep"

-----------------------------------------------------------------------------
(* Properties of the plain-text method *)

\* the lines of the page's plain text that are not blank
TextLines == StrippedLines(Split(ThePage.text.text))

\* the plain-text method has run on a page whose text has lines
TextTierRan == Ran("text") /\ ~ThePage.text.raises /\ TextLines # <<>>

\* the regions the plain-text method appended
Bands == Yield("text")

Abs(x) == IF x < 0 THEN 0 - x ELSE x

\* one region per line, in the order of the lines, as wide as the page
OneBandPerLine ==
    /\ Len(Bands) = Len(TextLines)
    /\ \A i \in 1..Len(Bands) :
         /\ Bands[i].text = TextLines[i]
         /\ Bands[i].bbox[1] = ThePage.rect.x0
         /\ Bands[i].bbox[3] = ThePage.rect.x1
         /\ Bands[i].size = DefaultSize

\* C17 as stated: with N lines the plain-text method gives N regions in line
\* order, region i (from 0) as wide as the page and reaching from
\* top + i * (height / N) to top + (i + 1) * (height / N), so that the bands are
\* equally high, follow each other without overlap or gap and cover the page
\* from top to bottom exactly.
C17_ExactBands ==
    TextTierRan =>
        LET N == Len(TextLines)
            rect == ThePage.rect
            H == rect.y1 - rect.y0
        IN  /\ OneBandPerLine
            /\ \A i \in 1..Len(Bands) :
                 /\ N * Bands[i].bbox[2] = N * rect.y0 + (i - 1) * H
                 /\ N * Bands[i].bbox[4] = N * rect.y0 + i * H
            /\ \A i, j \in 1..Len(Bands) :
                 Bands[i].bbox[4] - Bands[i].bbox[2] = Bands[j].bbox[4] - Bands[j].bbox[2]
            /\ \A i \in 1..(Len(Bands) - 1) : Bands[i].bbox[4] = Bands[i + 1].bbox[2]
            /\ Bands # <<>> =>
                 /\ Bands[1].bbox[2] = rect.y0
                 /\ Bands[Len(Bands)].bbox[4] = rect.y1

\* the rounding allowed to an edge of a band: two steps of a float of the
\* magnitude of the page's bottom
Tolerance == 2 * Spacing(ThePage.rect.y1, 1)

\* C17 amended: with N lines the plain-text method gives N regions in line
\* order, each as wide as the page; the first starts at the top of the page,
\* the tops go down the page, every band has its bottom below its top, and the
\* top and bottom of region i (from 0) are top + i * (height / N) and
\* top + (i + 1) * (height / N) up to the rounding of the float arithmetic.
C17_BandsUpToRounding ==
    TextTierRan =>
        LET N == Len(TextLines)
            rect == ThePage.rect
            H == rect.y1 - rect.y0
        IN  /\ OneBandPerLine
            /\ Bands[1].bbox[2] = rect.y0
            /\ \A i \in 1..Len(Bands) :
                 /\ Bands[i].bbox[2] < Bands[i].bbox[4]
                 /\ Abs(N * Bands[i].bbox[2] - (N * rect.y0 + (i - 1) * H)) <= N * Tolerance
                 /\ Abs(N * Bands[i].bbox[4] - (N * rect.y0 + i * H)) <= N * Tolerance
            /\ \A i \in 1..(Len(Bands) - 1) : Bands[i].bbox[2] < Bands[i + 1].bbox[2]

C17_Witness ==
    /\ pc = "returned"
    /\ TextTierRan
    /\ Len(Bands) = 3
    /\ text_blocks = Bands
    /\ \E i, j \in 1..3 :
         Bands[i].bbox[4] - Bands[i].bbox[2] # Bands[j].bbox[4] - Bands[j].bbox[2]

=============================================================================
